---------------------------- MODULE Spec2Model ----------------------------
(***************************************************************************)
(* A model of rhoyal-ai-backend/server.js: the Plaid transaction           *)
(* classifier, the snapshot aggregator, the goal forecaster, and the three *)
(* request handlers that use them (sandbox_connect, orbit/plan and         *)
(* plaid/transactions), interleaved at their await points around the       *)
(* process-wide lastAccessToken.                                           *)
(*                                                                         *)
(* Conventions.  Money amounts are integers (whole currency units): the    *)
(* rounding of IEEE-754 doubles is not modelled.  JavaScript values whose  *)
(* type the code inspects or coerces are records tagged with their type;   *)
(* objects are functions from field names to such values, and an absent    *)
(* field is a name outside the function's domain.  Strings are TLA+        *)
(* strings, searched and lower-cased character by character.               *)
(***************************************************************************)
EXTENDS Integers, Sequences, FiniteSets

VARIABLES
    lastAccessToken,   \* server.js:110, NULL until an exchange succeeds
    openaiKey,         \* whether process.env.OPENAI_API_KEY is set (fixed per process)
    clock,             \* the wall-clock date new Date() reads: [year, month (0-11), day]
    conn,              \* the sandbox_connect request in flight
    plan,              \* the orbit/plan request in flight
    list,              \* the plaid/transactions request in flight
    exchanges,         \* history: how many public-token exchanges have succeeded
    unit               \* a direct call of one helper function and its result

vars == <<lastAccessToken, openaiKey, clock, conn, plan, list, exchanges, unit>>

NULL == "null"

-----------------------------------------------------------------------------
(* JavaScript values                                                       *)

Undefined == [t |-> "undefined"]
Null      == [t |-> "null"]
Num(n)    == [t |-> "number", num |-> n]
Str(s)    == [t |-> "string", str |-> s]
Bool(b)   == [t |-> "boolean", bool |-> b]
Arr(s)    == [t |-> "array", arr |-> s]
Obj(f)    == [t |-> "object", obj |-> f]

\* obj.key, for obj the field map of an object: undefined when the key is absent
Get(f, k) == IF k \in DOMAIN f THEN f[k] ELSE Undefined

\* {...f, ...g}
Spread(f, g) == [k \in DOMAIN f \cup DOMAIN g |-> IF k \in DOMAIN g THEN g[k] ELSE f[k]]

\* The properties of a value x that x.key reads and {...x} copies: the fields
\* of an object; none for a number or a boolean
Props(x) == IF x.t = "object" THEN x.obj ELSE <<>>

DigitChars == "0123456789"
IsDigit(c) == \E k \in 1..Len(DigitChars) : SubSeq(DigitChars, k, k) = c
DigitValue(c) == (CHOOSE k \in 1..Len(DigitChars) : SubSeq(DigitChars, k, k) = c) - 1

RECURSIVE DigitsValue(_)
DigitsValue(s) ==
    IF Len(s) = 0 THEN 0
    ELSE 10 * DigitsValue(SubSeq(s, 1, Len(s) - 1)) + DigitValue(SubSeq(s, Len(s), Len(s)))

AllDigits(s) == Len(s) > 0 /\ \A i \in 1..Len(s) : IsDigit(SubSeq(s, i, i))

\* Number(s) || 0 for a string: the empty string and decimal integers convert,
\* every other text is NaN and falls back to 0
StringToNumberOrZero(s) ==
    IF Len(s) = 0 THEN 0
    ELSE IF AllDigits(s) THEN DigitsValue(s)
    ELSE IF SubSeq(s, 1, 1) = "-" /\ AllDigits(SubSeq(s, 2, Len(s)))
         THEN 0 - DigitsValue(SubSeq(s, 2, Len(s)))
    ELSE 0

\* Number(x) || 0
NumberOrZero(x) ==
    CASE x.t = "number"    -> x.num
      [] x.t = "string"    -> StringToNumberOrZero(x.str)
      [] x.t = "boolean"   -> IF x.bool THEN 1 ELSE 0
      [] x.t = "array"     -> IF Len(x.arr) = 1 /\ x.arr[1].t = "number" THEN x.arr[1].num
                              ELSE IF Len(x.arr) = 1 /\ x.arr[1].t = "string"
                                   THEN StringToNumberOrZero(x.arr[1].str)
                              ELSE 0
      [] OTHER             -> 0

\* !x for the values a request body can hold
Falsy(x) ==
    \/ x.t \in {"undefined", "null"}
    \/ x.t = "number" /\ x.num = 0
    \/ x.t = "string" /\ Len(x.str) = 0
    \/ x.t = "boolean" /\ ~x.bool

\* typeof x === "object"
TypeofObject(x) == x.t \in {"object", "array", "null"}

-----------------------------------------------------------------------------
(* Strings                                                                 *)

UpperChars == "ABCDEFGHIJKLMNOPQRSTUVWXYZ"
LowerChars == "abcdefghijklmnopqrstuvwxyz"

LowerChar(c) ==
    IF \E k \in 1..Len(UpperChars) : SubSeq(UpperChars, k, k) = c
    THEN LET k == CHOOSE j \in 1..Len(UpperChars) : SubSeq(UpperChars, j, j) = c
         IN  SubSeq(LowerChars, k, k)
    ELSE c

RECURSIVE toLowerCase(_)
toLowerCase(s) ==
    IF Len(s) = 0 THEN ""
    ELSE LowerChar(SubSeq(s, 1, 1)) \o toLowerCase(SubSeq(s, 2, Len(s)))

\* s.includes(kw)
includes(s, kw) == \E i \in 0..(Len(s) - Len(kw)) : SubSeq(s, i + 1, i + Len(kw)) = kw

IncludesAny(s, kws) == \E kw \in kws : includes(s, kw)


RECURSIVE NatToString(_)
NatToString(n) ==
    IF n < 10 THEN SubSeq(DigitChars, n + 1, n + 1)
    ELSE NatToString(n \div 10) \o SubSeq(DigitChars, (n % 10) + 1, (n % 10) + 1)

RECURSIVE PadStart(_, _)
PadStart(s, w) == IF Len(s) >= w THEN s ELSE PadStart("0" \o s, w)

\* String(x) for the values a transaction label or name can hold
JsString(x) ==
    CASE x.t = "string" -> x.str
      [] x.t = "number" -> IF x.num < 0 THEN "-" \o NatToString(0 - x.num) ELSE NatToString(x.num)
      [] x.t = "null"   -> "null"
      [] OTHER          -> "undefined"

-----------------------------------------------------------------------------
(* Dates: a Date is [year, month (0-11), day], its time of day left out,   *)
(* read and printed in UTC.                                                *)

IsLeap(y) == (y % 4 = 0 /\ y % 100 # 0) \/ y % 400 = 0

DaysInMonth(y, m) ==
    IF m = 1 THEN (IF IsLeap(y) THEN 29 ELSE 28)
    ELSE IF m \in {3, 5, 8, 10} THEN 30
    ELSE 31

\* date.setMonth(date.getMonth() + delta): the day of the month is kept, and a
\* day past the end of the target month runs over into the next month
SetMonth(date, delta) ==
    LET total == date.month + delta
        y     == date.year + (total \div 12)
        m     == total % 12
        dim   == DaysInMonth(y, m)
    IN  IF date.day <= dim THEN [year |-> y, month |-> m, day |-> date.day]
        ELSE IF m = 11 THEN [year |-> y + 1, month |-> 0, day |-> date.day - dim]
        ELSE [year |-> y, month |-> m + 1, day |-> date.day - dim]

\* The last instant a Date can hold is 275760-09-13T00:00:00Z; a Date set past
\* it becomes an Invalid Date
MaxDateYear == 275760
MaxDateMonth == 8
MaxDateDay == 13

ValidDate(d) ==
    \/ d.year < MaxDateYear
    \/ d.year = MaxDateYear /\ d.month < MaxDateMonth
    \/ d.year = MaxDateYear /\ d.month = MaxDateMonth /\ d.day < MaxDateDay

\* date.toISOString().slice(0, 10), for a valid date of a year >= 0: years
\* past 9999 print as "+" and six digits, which the slice cuts short
IsoDate10(d) ==
    LET y    == IF d.year <= 9999 THEN PadStart(NatToString(d.year), 4)
                ELSE "+" \o PadStart(NatToString(d.year), 6)
        full == y \o "-" \o PadStart(NatToString(d.month + 1), 2)
                  \o "-" \o PadStart(NatToString(d.day), 2)
    IN  SubSeq(full, 1, 10)

-----------------------------------------------------------------------------
(* Goal forecast                                                           *)

\* Math.ceil(a / b) for a > 0, b > 0
CeilDiv(a, b) == (a + b - 1) \div b

\* A call's outcome: a returned value, or a thrown exception
Returned(v) == [threw |-> FALSE, value |-> v]
Thrown(e)   == [threw |-> TRUE, error |-> e]

\* computeGoalForecast(goal), goal the field map of the argument object.
\* toISOString throws a RangeError on an Invalid Date.
computeGoalForecast(goal) ==
    LET target    == NumberOrZero(Get(goal, "targetAmount"))
        current   == NumberOrZero(Get(goal, "currentAmount"))
        contrib   == NumberOrZero(Get(goal, "monthlyContribution"))
        remaining == target - current
    IN  IF remaining <= 0 \/ contrib <= 0
        THEN Returned([monthsToGoal |-> Num(0), projectedCompletionDate |-> Null])
        ELSE LET months    == CeilDiv(remaining, contrib)
                 projected == SetMonth(clock, months)
             IN  IF ValidDate(projected)
                 THEN Returned([monthsToGoal |-> Num(months),
                                projectedCompletionDate |-> Str(IsoDate10(projected))])
                 ELSE Thrown("RangeError")

-----------------------------------------------------------------------------
(* Hybrid mapping: Plaid category -> core bucket                           *)

CoreCategories ==
    {"Housing", "Food & Dining", "Transportation", "Lifestyle", "Health & Fitness", "Other"}

\* x || "" for a string or absent argument
OrEmpty(x) == IF Falsy(x) THEN "" ELSE x.str

\* The five rule groups: the label keywords and the name keywords of each
RuleGroups ==
    << [category |-> "Housing",
        labels |-> {"rent", "mortgage", "housing", "utilities", "home"}, names |-> {}],
       [category |-> "Food & Dining",
        labels |-> {"food", "restaurant", "dining", "groceries", "fast food"},
        names |-> {"grill", "cafe"}],
       [category |-> "Transportation",
        labels |-> {"transportation", "gas", "fuel", "auto", "ride share", "rideshare"},
        names |-> {"uber", "lyft"}],
       [category |-> "Health & Fitness",
        labels |-> {"health", "medical", "pharmacy", "gym", "fitness"}, names |-> {}],
       [category |-> "Lifestyle",
        labels |-> {"shopping", "entertainment", "subscription", "travel", "recreation",
                    "hobby"},
        names |-> {}] >>

\* Whether the pair (label, name) matches rule group i
GroupMatches(i, primaryCategory, name) ==
    \/ IncludesAny(toLowerCase(OrEmpty(primaryCategory)), RuleGroups[i].labels)
    \/ IncludesAny(toLowerCase(OrEmpty(name)), RuleGroups[i].names)

\* A faulty variant of mapPlaidCategoryToCore: the Food & Dining group is
\* tested before the Housing group
mapPlaidCategoryToCore_FoodFirst(primaryCategory, name) ==
    LET order == <<2, 1, 3, 4, 5>>
        hits  == {k \in 1..5 : GroupMatches(order[k], primaryCategory, name)}
    IN  IF hits = {} THEN "Other"
        ELSE RuleGroups[order[CHOOSE k \in hits : \A j \in hits : k <= j]].category

mapPlaidCategoryToCore(primaryCategory, name) ==
    LET p == toLowerCase(OrEmpty(primaryCategory))
        n == toLowerCase(OrEmpty(name))
    IN  IF \/ includes(p, "rent")
           \/ includes(p, "mortgage")
           \/ includes(p, "housing")
           \/ includes(p, "utilities")
           \/ includes(p, "home")
        THEN "Housing"
        ELSE IF \/ includes(p, "food")
                \/ includes(p, "restaurant")
                \/ includes(p, "dining")
                \/ includes(p, "groceries")
                \/ includes(p, "fast food")
                \/ includes(n, "grill")
                \/ includes(n, "cafe")
        THEN "Food & Dining"
        ELSE IF \/ includes(p, "transportation")
                \/ includes(p, "gas")
                \/ includes(p, "fuel")
                \/ includes(p, "auto")
                \/ includes(p, "ride share")
                \/ includes(p, "rideshare")
                \/ includes(n, "uber")
                \/ includes(n, "lyft")
        THEN "Transportation"
        ELSE IF \/ includes(p, "health")
                \/ includes(p, "medical")
                \/ includes(p, "pharmacy")
                \/ includes(p, "gym")
                \/ includes(p, "fitness")
        THEN "Health & Fitness"
        ELSE IF \/ includes(p, "shopping")
                \/ includes(p, "entertainment")
                \/ includes(p, "subscription")
                \/ includes(p, "travel")
                \/ includes(p, "recreation")
                \/ includes(p, "hobby")
        THEN "Lifestyle"
        ELSE "Other"

-----------------------------------------------------------------------------
(* Raw transactions: the fields both consumers read                        *)

\* tx.personal_finance_category?.primary ||
\*   (Array.isArray(tx.category) ? tx.category[0] : "") || ""
PrimaryOf(tx) ==
    LET pfc    == Get(tx, "personal_finance_category")
        first  == IF pfc.t \in {"undefined", "null"} THEN Undefined
                  ELSE Get(Props(pfc), "primary")
        cat    == Get(tx, "category")
        second == IF cat.t = "array"
                  THEN (IF Len(cat.arr) >= 1 THEN cat.arr[1] ELSE Undefined)
                  ELSE Str("")
    IN  IF ~Falsy(first) THEN first
        ELSE IF ~Falsy(second) THEN second
        ELSE Str("")

\* tx.name || fallback
NameOf(tx, fallback) == IF Falsy(Get(tx, "name")) THEN Str(fallback) ELSE Get(tx, "name")

\* The income test both consumers apply to the lower-cased label and name
IsIncome(primary, name) ==
    LET primaryLower == toLowerCase(JsString(primary))
        nameLower    == toLowerCase(JsString(name))
    IN  \/ includes(primaryLower, "income")
        \/ includes(primaryLower, "payroll")
        \/ includes(nameLower, "payroll")
        \/ includes(nameLower, "salary")
        \/ includes(nameLower, "deposit")

Abs(n) == IF n < 0 THEN 0 - n ELSE n

-----------------------------------------------------------------------------
(* Snapshot aggregation: the loop of buildPlaidSnapshot                    *)

SampleCap == 10

ZeroTotals == [c \in CoreCategories |-> 0]

EmptyAcc == [categoryTotals |-> ZeroTotals, totalIncome |-> 0, totalSpending |-> 0,
             sample |-> <<>>]

\* A faulty variant of AggregateStep: the else is lost, so an income
\* transaction is also added to the total of a category
AggregateStep_IncomeCounted(acc, tx) ==
    LET rawAmount == NumberOrZero(Get(tx, "amount"))
        primary   == PrimaryOf(tx)
        name      == NameOf(tx, "")
        amt       == Abs(rawAmount)
        income    == IsIncome(primary, name)
        core      == mapPlaidCategoryToCore(primary, name)
        entry     == [name |-> name, amount |-> Num(rawAmount), date |-> Get(tx, "date"),
                      primaryCategory |-> primary]
    IN  [categoryTotals |-> [acc.categoryTotals EXCEPT ![core] = @ + amt],
         totalIncome   |-> IF income THEN acc.totalIncome + amt ELSE acc.totalIncome,
         totalSpending |-> IF income THEN acc.totalSpending ELSE acc.totalSpending + amt,
         sample        |-> IF Len(acc.sample) < SampleCap THEN Append(acc.sample, entry)
                           ELSE acc.sample]

\* A faulty variant of AggregateStep: the cap is tested with <=
AggregateStep_CapOffByOne(acc, tx) ==
    LET rawAmount == NumberOrZero(Get(tx, "amount"))
        primary   == PrimaryOf(tx)
        name      == NameOf(tx, "")
        amt       == Abs(rawAmount)
        income    == IsIncome(primary, name)
        core      == mapPlaidCategoryToCore(primary, name)
        entry     == [name |-> name, amount |-> Num(rawAmount), date |-> Get(tx, "date"),
                      primaryCategory |-> primary]
    IN  [categoryTotals |->
             IF income THEN acc.categoryTotals
             ELSE [acc.categoryTotals EXCEPT ![core] = @ + amt],
         totalIncome   |-> IF income THEN acc.totalIncome + amt ELSE acc.totalIncome,
         totalSpending |-> IF income THEN acc.totalSpending ELSE acc.totalSpending + amt,
         sample        |-> IF Len(acc.sample) <= SampleCap THEN Append(acc.sample, entry)
                           ELSE acc.sample]

\* One iteration of  for (const tx of txs) { ... }
AggregateStep(acc, tx) ==
    LET rawAmount == NumberOrZero(Get(tx, "amount"))
        primary   == PrimaryOf(tx)
        name      == NameOf(tx, "")
        amt       == Abs(rawAmount)
        income    == IsIncome(primary, name)
        core      == mapPlaidCategoryToCore(primary, name)
        entry     == [name |-> name, amount |-> Num(rawAmount), date |-> Get(tx, "date"),
                      primaryCategory |-> primary]
    IN  [categoryTotals |->
             IF income THEN acc.categoryTotals
             ELSE [acc.categoryTotals EXCEPT ![core] = @ + amt],
         totalIncome   |-> IF income THEN acc.totalIncome + amt ELSE acc.totalIncome,
         totalSpending |-> IF income THEN acc.totalSpending ELSE acc.totalSpending + amt,
         sample        |-> IF Len(acc.sample) < SampleCap THEN Append(acc.sample, entry)
                           ELSE acc.sample]

RECURSIVE AggregateLoop(_, _)
AggregateLoop(acc, txs) ==
    IF Len(txs) = 0 THEN acc
    ELSE AggregateLoop(AggregateStep(acc, Head(txs)), Tail(txs))

\* What buildPlaidSnapshot returns once transactionsGet has answered with txs
SnapshotOf(txs) ==
    LET acc == AggregateLoop(EmptyAcc, txs)
    IN  [startDate             |-> IsoDate10(SetMonth(clock, 0 - 1)),
         endDate               |-> IsoDate10(clock),
         totalIncomeEstimate   |-> acc.totalIncome,
         totalSpendingEstimate |-> acc.totalSpending,
         categoryTotals        |-> acc.categoryTotals,
         sampleTransactions    |-> acc.sample]

-----------------------------------------------------------------------------
(* Per-transaction listing: the map of GET /api/plaid/transactions         *)

\* A faulty variant of NormalizeTx: the upstream sign of an income amount is
\* trusted
NormalizeTx_TrustsSign(tx) ==
    LET rawAmount == NumberOrZero(Get(tx, "amount"))
        primary   == PrimaryOf(tx)
        name      == NameOf(tx, "Transaction")
        income    == IsIncome(primary, name)
    IN  [id     |-> Get(tx, "transaction_id"),
         name   |-> name,
         date   |-> Get(tx, "date"),
         amount |-> IF income THEN rawAmount ELSE 0 - Abs(rawAmount),
         type   |-> IF income THEN "income" ELSE "spending"]

\* A faulty variant of NormalizeTx: a housing payment is tagged the way the
\* demo list tags its rent
NormalizeTx_TagsBills(tx) ==
    LET rawAmount == NumberOrZero(Get(tx, "amount"))
        primary   == PrimaryOf(tx)
        name      == NameOf(tx, "Transaction")
        income    == IsIncome(primary, name)
    IN  [id     |-> Get(tx, "transaction_id"),
         name   |-> name,
         date   |-> Get(tx, "date"),
         amount |-> IF income THEN Abs(rawAmount) ELSE 0 - Abs(rawAmount),
         type   |-> IF income THEN "income"
                    ELSE IF mapPlaidCategoryToCore(primary, name) = "Housing" THEN "bill"
                    ELSE "spending"]

NormalizeTx(tx) ==
    LET rawAmount == NumberOrZero(Get(tx, "amount"))
        primary   == PrimaryOf(tx)
        name      == NameOf(tx, "Transaction")
        income    == IsIncome(primary, name)
    IN  [id     |-> Get(tx, "transaction_id"),
         name   |-> name,
         date   |-> Get(tx, "date"),
         amount |-> IF income THEN Abs(rawAmount) ELSE 0 - Abs(rawAmount),
         type   |-> IF income THEN "income" ELSE "spending"]

NormalizeAll(txs) == [i \in 1..Len(txs) |-> NormalizeTx(txs[i])]

DemoTransactions ==
    << [id |-> Str("tx1"), name |-> Str("Paycheck"), amount |-> 3200,
        date |-> Str("2025-12-02"), type |-> "income"],
       [id |-> Str("tx2"), name |-> Str("Rent"), amount |-> 0 - 1600,
        date |-> Str("2025-12-01"), type |-> "bill"],
       [id |-> Str("tx3"), name |-> Str("Groceries"), amount |-> 0 - 120,
        date |-> Str("2025-12-02"), type |-> "spending"] >>

-----------------------------------------------------------------------------
(* POST /api/orbit/plan: the computation around the snapshot               *)

Max(a, b) == IF a >= b THEN a ELSE b

\* Math.round(x) is floor(x + 1/2); here x = (surplus * 0.2) / n = surplus / (5 n)
RoundFifthPer(surplus, n) == (2 * surplus + 5 * n) \div (10 * n)

\* Array.isArray(x) ? x : []
ArrayOrEmpty(x) == IF x.t = "array" THEN x.arr ELSE <<>>

\* categories.reduce((sum, cat) => sum + (Number(cat.planned) || 0), 0);
\* reading .planned of null or undefined throws a TypeError
RECURSIVE PlannedSum(_)
PlannedSum(categories) ==
    IF Len(categories) = 0 THEN Returned(0)
    ELSE LET cat  == categories[Len(categories)]
             rest == PlannedSum(SubSeq(categories, 1, Len(categories) - 1))
         IN  IF rest.threw THEN rest
             ELSE IF cat.t \in {"null", "undefined"} THEN Thrown("TypeError")
             ELSE Returned(rest.value + NumberOrZero(Get(Props(cat), "planned")))

\* A faulty variant of PerGoalAmount: the share is cut down (Math.floor)
\* instead of rounded
PerGoalAmount_Floor(baseSurplus, baseGoals) ==
    IF baseSurplus > 0 /\ Len(baseGoals) > 0
    THEN Max(baseSurplus \div (5 * Len(baseGoals)), 0)
    ELSE 0

PerGoalAmount(baseSurplus, baseGoals) ==
    IF baseSurplus > 0 /\ Len(baseGoals) > 0
    THEN Max(RoundFifthPer(baseSurplus, Len(baseGoals)), 0)
    ELSE 0

\* The body of baseGoals.map((goal) => ...): reading .monthlyContribution of
\* null or undefined throws a TypeError, and computeGoalForecast may throw
GoalWithContrib(goal, perGoalAmount) ==
    IF goal.t \in {"null", "undefined"} THEN Thrown("TypeError")
    ELSE LET given               == Get(Props(goal), "monthlyContribution")
             monthlyContribution == IF given.t = "number" THEN given ELSE Num(perGoalAmount)
             withContrib         == Spread(Props(goal),
                                           [monthlyContribution |-> monthlyContribution])
             forecast            == computeGoalForecast(withContrib)
         IN  IF forecast.threw THEN forecast
             ELSE Returned(Obj(Spread(withContrib, forecast.value)))

RECURSIVE GoalsWithContrib(_, _)
GoalsWithContrib(goals, perGoalAmount) ==
    IF Len(goals) = 0 THEN Returned(<<>>)
    ELSE LET first == GoalWithContrib(Head(goals), perGoalAmount)
         IN  IF first.threw THEN first
             ELSE LET rest == GoalsWithContrib(Tail(goals), perGoalAmount)
                  IN  IF rest.threw THEN rest
                      ELSE Returned(<<first.value>> \o rest.value)

BadRequest   == [status |-> 400, error |-> "Missing or invalid budget state in request body"]
PlanFailed   == [status |-> 500, error |-> "Failed to build Orbit plan"]

\* if (!state || typeof state !== "object")
InvalidState(state) == Falsy(state) \/ ~TypeofObject(state)

\* The handler from the snapshot on (server.js 449-483), state being valid and
\* the planned spending already summed
PlanCompose(state, plannedSpending, plaidSnapshot) ==
    LET income      == NumberOrZero(Get(Props(state), "income"))
        categories  == ArrayOrEmpty(Get(Props(state), "categories"))
        baseGoals   == ArrayOrEmpty(Get(Props(state), "goals"))
        baseSurplus == income - plannedSpending
    IN  IF ~openaiKey
        THEN LET goals == GoalsWithContrib(baseGoals, PerGoalAmount(baseSurplus, baseGoals))
             IN  IF goals.threw THEN PlanFailed
                 ELSE [status |-> 200, categories |-> categories, goals |-> goals.value,
                       surplus |-> baseSurplus, plannedSpending |-> plannedSpending,
                       plaidSnapshot |-> plaidSnapshot,
                       orbitInsight |->
                         "Orbit used a simple rule-of-thumb plan (no AI key configured)."]
        ELSE [status |-> 200, categories |-> categories, goals |-> baseGoals,
              surplus |-> baseSurplus, plannedSpending |-> plannedSpending,
              plaidSnapshot |-> plaidSnapshot,
              orbitInsight |->
                "Orbit route is wired. (AI planning logic can be added next.)"]

Idle == [pc |-> "idle"]

\* The handler up to its first suspension.  An invalid state is answered 400; a
\* throw while summing the categories is answered 500; buildPlaidSnapshot
\* returns null at once when no token is stored, and the plan is composed;
\* otherwise transactionsGet is called with the stored token and awaited.
PlanReceive(state) ==
    /\ plan.pc = "idle"
    /\ plan' =
         IF InvalidState(state) THEN [pc |-> "responded", state |-> state, resp |-> BadRequest]
         ELSE LET planned == PlannedSum(ArrayOrEmpty(Get(Props(state), "categories")))
              IN  IF planned.threw
                  THEN [pc |-> "responded", state |-> state, resp |-> PlanFailed]
                  ELSE IF lastAccessToken = NULL
                  THEN [pc |-> "responded", state |-> state,
                        resp |-> PlanCompose(state, planned.value, Null)]
                  ELSE [pc |-> "awaitTxs", state |-> state,
                        plannedSpending |-> planned.value,
                        access_token |-> lastAccessToken]
    /\ UNCHANGED <<lastAccessToken, openaiKey, clock, conn, list, exchanges, unit>>

\* transactionsGet answers: buildPlaidSnapshot aggregates and the plan is composed
PlanTxsReturn(txs) ==
    /\ plan.pc = "awaitTxs"
    /\ plan' = [pc |-> "responded", state |-> plan.state, raw |-> txs,
                resp |-> PlanCompose(plan.state, plan.plannedSpending, SnapshotOf(txs))]
    /\ UNCHANGED <<lastAccessToken, openaiKey, clock, conn, list, exchanges, unit>>

\* transactionsGet fails: the inner catch leaves plaidSnapshot null
PlanTxsFail ==
    /\ plan.pc = "awaitTxs"
    /\ plan' = [pc |-> "responded", state |-> plan.state,
                resp |-> PlanCompose(plan.state, plan.plannedSpending, Null)]
    /\ UNCHANGED <<lastAccessToken, openaiKey, clock, conn, list, exchanges, unit>>

\* The response has been sent; the next plan request may arrive
PlanDone ==
    /\ plan.pc = "responded"
    /\ plan' = Idle
    /\ UNCHANGED <<lastAccessToken, openaiKey, clock, conn, list, exchanges, unit>>

-----------------------------------------------------------------------------
(* GET /api/plaid/transactions                                             *)

Min(a, b) == IF a <= b THEN a ELSE b

\* Math.max(1, Math.min(Number(req.query.days) || 14, 90))
DaysOf(query) ==
    LET n == NumberOrZero(query)
    IN  Max(1, Min(IF n = 0 THEN 14 ELSE n, 90))

\* date.setDate(date.getDate() - k), k >= 0
RECURSIVE SubDays(_, _)
SubDays(date, k) ==
    IF date.day - k >= 1 THEN [date EXCEPT !.day = @ - k]
    ELSE LET py == IF date.month = 0 THEN date.year - 1 ELSE date.year
             pm == IF date.month = 0 THEN 11 ELSE date.month - 1
         IN  SubDays([year |-> py, month |-> pm, day |-> DaysInMonth(py, pm)], k - date.day)

TransactionsFailed == [status |-> 500, error |-> "Failed to fetch transactions"]

\* The handler up to its first suspension: with a token stored it calls
\* transactionsGet for the window; without one it answers the demo list
ListReceive(query) ==
    /\ list.pc = "idle"
    /\ list' =
         LET days == DaysOf(query)
         IN  IF lastAccessToken # NULL
             THEN [pc |-> "awaitTxs", access_token |-> lastAccessToken,
                   start_date |-> IsoDate10(SubDays(clock, days - 1)),
                   end_date |-> IsoDate10(clock)]
             ELSE [pc |-> "responded", live |-> FALSE,
                   resp |-> [status |-> 200, transactions |-> DemoTransactions]]
    /\ UNCHANGED <<lastAccessToken, openaiKey, clock, conn, plan, exchanges, unit>>

ListTxsReturn(txs) ==
    /\ list.pc = "awaitTxs"
    /\ list' = [pc |-> "responded", live |-> TRUE, raw |-> txs,
                resp |-> [status |-> 200, transactions |-> NormalizeAll(txs)]]
    /\ UNCHANGED <<lastAccessToken, openaiKey, clock, conn, plan, exchanges, unit>>

ListTxsFail ==
    /\ list.pc = "awaitTxs"
    /\ list' = [pc |-> "responded", live |-> TRUE, raw |-> <<>>, resp |-> TransactionsFailed]
    /\ UNCHANGED <<lastAccessToken, openaiKey, clock, conn, plan, exchanges, unit>>

ListDone ==
    /\ list.pc = "responded"
    /\ list' = Idle
    /\ UNCHANGED <<lastAccessToken, openaiKey, clock, conn, plan, exchanges, unit>>

-----------------------------------------------------------------------------
(* POST /api/plaid/sandbox_connect and exchangeAndFetch                    *)

\* a ?? b
Nullish(x) == x.t \in {"undefined", "null"}

\* a || b
OrElse(a, b) == IF Falsy(a) THEN b ELSE a

\* One element of mapAccounts; a.balances is read without a guard
MapAccount(a) ==
    LET balances == Get(a, "balances")
        current  == Get(Props(balances), "current")
        avail    == Get(Props(balances), "available")
    IN  [id       |-> Get(a, "account_id"),
         name     |-> OrElse(Get(a, "name"), OrElse(Get(a, "official_name"), Str("Account"))),
         type     |-> OrElse(Get(a, "type"), Str("other")),
         subtype  |-> OrElse(Get(a, "subtype"), Str("")),
         balance  |-> IF ~Nullish(current) THEN current
                      ELSE IF ~Nullish(avail) THEN avail ELSE Num(0),
         currency |-> OrElse(Get(Props(balances), "iso_currency_code"), Str("USD"))]

mapAccounts(accounts) ==
    IF \E i \in 1..Len(accounts) : Nullish(Get(accounts[i], "balances"))
    THEN Thrown("TypeError")
    ELSE Returned([i \in 1..Len(accounts) |-> MapAccount(accounts[i])])

\* accounts.reduce((sum, a) => sum + (a.balance || 0), 0), balances being numbers
RECURSIVE TotalBalance(_)
TotalBalance(accounts) ==
    IF Len(accounts) = 0 THEN 0
    ELSE TotalBalance(SubSeq(accounts, 1, Len(accounts) - 1))
           + accounts[Len(accounts)].balance.num

ConnectFailed == [status |-> 500, error |-> "Unable to connect sandbox accounts"]

MaxExchanges == 2

ConnReceive ==
    /\ conn.pc = "idle"
    /\ conn' = [pc |-> "awaitPublicToken"]
    /\ UNCHANGED <<lastAccessToken, openaiKey, clock, plan, list, exchanges, unit>>

\* sandboxPublicTokenCreate answers; exchangeAndFetch starts the exchange
ConnPublicTokenReturn(public_token) ==
    /\ conn.pc = "awaitPublicToken"
    /\ conn' = [pc |-> "awaitExchange", public_token |-> public_token]
    /\ UNCHANGED <<lastAccessToken, openaiKey, clock, plan, list, exchanges, unit>>

\* itemPublicTokenExchange answers: the token is stored process-wide and the
\* balances are requested with it
ConnExchangeReturn(access_token) ==
    /\ conn.pc = "awaitExchange"
    /\ exchanges < MaxExchanges
    /\ lastAccessToken' = access_token
    /\ exchanges' = exchanges + 1
    /\ conn' = [pc |-> "awaitAccounts", access_token |-> access_token]
    /\ UNCHANGED <<openaiKey, clock, plan, list, unit>>

ConnAccountsReturn(accounts) ==
    /\ conn.pc = "awaitAccounts"
    /\ conn' = LET mapped == mapAccounts(accounts)
               IN  IF mapped.threw THEN [pc |-> "responded", resp |-> ConnectFailed]
                   ELSE [pc |-> "responded",
                         resp |-> [status |-> 200, accounts |-> mapped.value,
                                   totalBalance |-> TotalBalance(mapped.value)]]
    /\ UNCHANGED <<lastAccessToken, openaiKey, clock, plan, list, exchanges, unit>>

\* A faulty variant of ConnFail: a failed connect also forgets the stored token
ConnFail_ClearsToken ==
    /\ conn.pc \in {"awaitPublicToken", "awaitExchange", "awaitAccounts"}
    /\ conn' = [pc |-> "responded", resp |-> [status |-> 500,
                                              error |-> "Unable to connect sandbox accounts"]]
    /\ lastAccessToken' = NULL
    /\ UNCHANGED <<openaiKey, clock, plan, list, exchanges, unit>>

\* Any of the three Plaid calls rejects: the handler's catch answers 500
ConnFail ==
    /\ conn.pc \in {"awaitPublicToken", "awaitExchange", "awaitAccounts"}
    /\ conn' = [pc |-> "responded", resp |-> ConnectFailed]
    /\ UNCHANGED <<lastAccessToken, openaiKey, clock, plan, list, exchanges, unit>>

ConnDone ==
    /\ conn.pc = "responded"
    /\ conn' = Idle
    /\ UNCHANGED <<lastAccessToken, openaiKey, clock, plan, list, exchanges, unit>>

-----------------------------------------------------------------------------
(* Direct calls of the two pure helpers                                    *)

NoCall == [fn |-> "none"]

CallComputeGoalForecast(goal) ==
    /\ unit = NoCall
    /\ unit' = [fn |-> "computeGoalForecast", goal |-> goal,
                result |-> computeGoalForecast(goal)]
    /\ UNCHANGED <<lastAccessToken, openaiKey, clock, conn, plan, list, exchanges>>

CallMapPlaidCategoryToCore(primaryCategory, name) ==
    /\ unit = NoCall
    /\ unit' = [fn |-> "mapPlaidCategoryToCore", primaryCategory |-> primaryCategory,
                name |-> name, result |-> mapPlaidCategoryToCore(primaryCategory, name)]
    /\ UNCHANGED <<lastAccessToken, openaiKey, clock, conn, plan, list, exchanges>>

UnitReturn ==
    /\ unit # NoCall
    /\ unit' = NoCall
    /\ UNCHANGED <<lastAccessToken, openaiKey, clock, conn, plan, list, exchanges>>

-----------------------------------------------------------------------------
(* Inputs: what clients send and what Plaid answers                        *)

SeqsUpTo(S, n) == UNION {[1..k -> S] : k \in 0..n}

\* Raw transactions as Plaid sends them (field maps)
Catalogue ==
    << [transaction_id |-> Str("t01"), amount |-> Num(0 - 2500), date |-> Str("2026-10-30"),
        name |-> Str("ACME CORP DIRECT DEP"),
        personal_finance_category |-> Obj([primary |-> Str("PAYROLL")])],
       [transaction_id |-> Str("t02"), amount |-> Num(1600), date |-> Str("2026-11-01"),
        name |-> Str("Oakwood Apartments"),
        personal_finance_category |-> Obj([primary |-> Str("RENT_AND_UTILITIES")])],
       [transaction_id |-> Str("t03"), amount |-> Num(12), date |-> Str("2026-11-02"),
        name |-> Str("Corner Cafe"),
        category |-> Arr(<<Str("Shops"), Str("Bakery")>>)],
       [transaction_id |-> Str("t04"), amount |-> Num(23), date |-> Str("2026-11-02"),
        name |-> Str("Uber 072515 SF**POOL**"),
        personal_finance_category |-> Obj([primary |-> Str("TRAVEL")])],
       [transaction_id |-> Str("t05"), amount |-> Num(40), date |-> Str("2026-11-03"),
        name |-> Str("Fresh Market"),
        personal_finance_category |-> Obj([primary |-> Str("Home Food Delivery")])],
       [transaction_id |-> Str("t06"), amount |-> Num(300), date |-> Str("2026-11-03"),
        name |-> Str("Mobile Deposit"),
        personal_finance_category |-> Obj([primary |-> Str("TRANSFER_IN")])],
       [transaction_id |-> Str("t07"), date |-> Str("2026-11-03"),
        name |-> Str("Gym Membership"),
        personal_finance_category |-> Obj([primary |-> Str("PERSONAL_CARE")])],
       [transaction_id |-> Str("t08"), amount |-> Num(0), date |-> Str("2026-11-04"),
        name |-> Str("Coffee"),
        personal_finance_category |-> Obj([primary |-> Str("FOOD_AND_DRINK")])],
       [transaction_id |-> Str("t09"), amount |-> Num(0 - 75), date |-> Str("2026-11-04")],
       [transaction_id |-> Str("t10"), amount |-> Str("45"), date |-> Str("2026-11-04"),
        name |-> Str("CVS"), category |-> Arr(<<Str("Medical")>>),
        personal_finance_category |-> Null],
       [transaction_id |-> Str("t11"), amount |-> Num(15), date |-> Str("2026-11-05"),
        name |-> Str("Netflix"),
        personal_finance_category |-> Obj([primary |-> Str("ENTERTAINMENT")])],
       [transaction_id |-> Str("t12"), amount |-> Num(3200), date |-> Str("2026-11-05"),
        name |-> Str("Monthly Salary"), category |-> Arr(<<>>)] >>

CatalogueSet == {Catalogue[i] : i \in 1..Len(Catalogue)}

\* The n transactions of the catalogue, taken round and round, from place o
Window(o, n) == [i \in 1..n |-> Catalogue[((o + i - 2) % Len(Catalogue)) + 1]]

MaxShort == 2
MaxTxs == 15

\* The answers of transactionsGet: every short sequence, and longer runs that
\* pass the sample cap
TxResponses ==
    SeqsUpTo(CatalogueSet, MaxShort)
      \cup {Window(o, n) : o \in 1..Len(Catalogue), n \in (MaxShort + 1)..MaxTxs}

FewTxResponses == {<<>>, Window(1, 2), Window(2, SampleCap + 1)}

Tokens == {"access-sandbox-1", "access-sandbox-2"}
PublicTokens == {"public-sandbox-1"}

AccountResponses ==
    { <<>>,
      << [account_id |-> Str("a1"), name |-> Str("Plaid Checking"), type |-> Str("depository"),
          balances |-> Obj([current |-> Num(110), available |-> Num(100),
                            iso_currency_code |-> Str("USD")])],
         [account_id |-> Str("a2"), official_name |-> Str("Plaid Gold Card"),
          balances |-> Obj([current |-> Null, available |-> Num(40)])] >>,
      << [account_id |-> Str("a3"), name |-> Str("Closed")] >> }

DaysQueries == {Undefined, Str("7"), Str("500"), Str("-3")}

\* Budget states
Absent == [t |-> "absent"]

StateOf(income, categories, goals) ==
    LET all     == [income |-> income, categories |-> categories, goals |-> goals]
        present == {k \in DOMAIN all : all[k] # Absent}
    IN  Obj([k \in present |-> all[k]])

GoalValues ==
    { Obj([name |-> Str("Laptop"), targetAmount |-> Num(1200), currentAmount |-> Num(0)]),
      Obj([targetAmount |-> Num(1000), currentAmount |-> Num(400),
           monthlyContribution |-> Num(150)]),
      Obj([targetAmount |-> Num(500), currentAmount |-> Num(500),
           monthlyContribution |-> Num(50)]),
      Obj([targetAmount |-> Str("1200"), monthlyContribution |-> Str("100")]),
      Obj([targetAmount |-> Num(100), monthlyContribution |-> Num(0 - 5)]),
      Obj([targetAmount |-> Num(40000000), currentAmount |-> Num(0),
           monthlyContribution |-> Num(1)]),
      Null,
      Num(3) }

MaxGoals == 2

GoalsValues ==
    {Absent, Obj([count |-> Num(2)])} \cup {Arr(g) : g \in SeqsUpTo(GoalValues, MaxGoals)}

IncomeValues == {Absent, Num(5000), Num(1003), Num(5), Str("4000"), Str("lots")}

CategoriesValues ==
    { Absent,
      Str("none"),
      Arr(<<Obj([name |-> Str("All"), planned |-> Num(4000)])>>),
      Arr(<<Obj([planned |-> Num(1000)]), Obj([planned |-> Str("500")]),
            Obj([name |-> Str("Misc")])>>),
      Arr(<<Num(3), Obj([planned |-> Num(100)])>>),
      Arr(<<Obj([planned |-> Num(100)]), Null>>) }

PlanStates ==
    {Undefined, Null, Num(0), Num(7), Str(""), Str("budget"), Bool(TRUE), Arr(<<>>)}
      \cup {StateOf(i, c, g) : i \in IncomeValues, c \in CategoriesValues, g \in GoalsValues}

FewPlanStates ==
    { Null,
      StateOf(Num(5000), Arr(<<Obj([planned |-> Num(4000)])>>),
              Arr(<<Obj([targetAmount |-> Num(1200), currentAmount |-> Num(0)]),
                    Obj([targetAmount |-> Num(1000), currentAmount |-> Num(400)])>>)) }

\* Wall-clock dates: an ordinary day, and a 31st, which setMonth runs over
Today == [year |-> 2026, month |-> 10, day |-> 5]
Clocks == {Today, [year |-> 2027, month |-> 0, day |-> 31]}

GoalArguments ==
    LET amounts == {Absent, Num(0), Num(600), Num(1000), Num(0 - 200), Num(4000000),
                    Str("1200"), Str("soon"), Null}
        contribs == {Absent, Num(0), Num(1), Num(150), Num(7), Num(0 - 10), Str("100"), Null}
    IN  { LET all     == [targetAmount |-> t, currentAmount |-> c, monthlyContribution |-> m]
              present == {k \in DOMAIN all : all[k] # Absent}
          IN  [k \in present |-> all[k]] : t \in amounts, c \in amounts, m \in contribs }

Labels ==
    { Undefined, Null, Str(""), Str("RENT_AND_UTILITIES"), Str("rent food"),
      Str("Food and Drink"), Str("FAST FOOD"), Str("Home Food Delivery"),
      Str("TRANSPORTATION"), Str("Gas Stations"), Str("TRAVEL"), Str("Healthcare"),
      Str("Gyms and Fitness Centers"), Str("ENTERTAINMENT"), Str("Shopping travel"),
      Str("GENERAL_MERCHANDISE"), Str("TRANSFER_OUT"), Str("Mortgage & Rent"),
      Str("Pharmacy auto") }

Names ==
    { Undefined, Str(""), Str("Corner Cafe"), Str("LYFT *RIDE"), Str("Uber Eats Grill"),
      Str("Netflix"), Str("Rent payment") }

-----------------------------------------------------------------------------
(* Specifications                                                          *)

Init ==
    /\ lastAccessToken = NULL
    /\ openaiKey \in BOOLEAN
    /\ clock = Today
    /\ conn = Idle
    /\ plan = Idle
    /\ list = Idle
    /\ exchanges = 0
    /\ unit = NoCall

\* The server: the three handlers, interleaved at their awaits
Next ==
    \/ ConnReceive
    \/ \E pt \in PublicTokens : ConnPublicTokenReturn(pt)
    \/ \E tok \in Tokens : ConnExchangeReturn(tok)
    \/ \E accounts \in AccountResponses : ConnAccountsReturn(accounts)
    \/ ConnFail
    \/ ConnDone
    \/ \E state \in FewPlanStates : PlanReceive(state)
    \/ \E txs \in FewTxResponses : PlanTxsReturn(txs)
    \/ PlanTxsFail
    \/ PlanDone
    \/ \E query \in DaysQueries : ListReceive(query)
    \/ \E txs \in FewTxResponses : ListTxsReturn(txs)
    \/ ListTxsFail
    \/ ListDone

Spec == Init /\ [][Next]_vars

\* Plan requests alone, over every budget state, on a server with no token yet
NextPlan ==
    \/ \E state \in PlanStates : PlanReceive(state)
    \/ PlanDone

SpecPlan == Init /\ [][NextPlan]_vars

\* A server on which one sandbox_connect has completed, its clients sending one
\* request at a time, Plaid answering with every transaction list
InitData ==
    /\ lastAccessToken = "access-sandbox-1"
    /\ openaiKey \in BOOLEAN
    /\ clock = Today
    /\ conn = Idle
    /\ plan = Idle
    /\ list = Idle
    /\ exchanges = 1
    /\ unit = NoCall

NextData ==
    \/ list.pc = "idle" /\ \E state \in FewPlanStates : PlanReceive(state)
    \/ \E txs \in TxResponses : PlanTxsReturn(txs)
    \/ PlanTxsFail
    \/ PlanDone
    \/ plan.pc = "idle" /\ \E query \in DaysQueries : ListReceive(query)
    \/ \E txs \in TxResponses : ListTxsReturn(txs)
    \/ ListTxsFail
    \/ ListDone

SpecData == InitData /\ [][NextData]_vars

\* The two helpers called directly
NextUnit ==
    \/ \E goal \in GoalArguments : CallComputeGoalForecast(goal)
    \/ \E p \in Labels, n \in Names : CallMapPlaidCategoryToCore(p, n)
    \/ UnitReturn

InitUnit ==
    /\ lastAccessToken = NULL
    /\ openaiKey = FALSE
    /\ clock \in Clocks
    /\ conn = Idle
    /\ plan = Idle
    /\ list = Idle
    /\ exchanges = 0
    /\ unit = NoCall

SpecUnit == InitUnit /\ [][NextUnit]_vars

-----------------------------------------------------------------------------
(* Claims about the two helpers, under SpecUnit                            *)

\* C6: every call of mapPlaidCategoryToCore returns one of the six core
\* categories: the category of the first rule group, in the order Housing,
\* Food & Dining, Transportation, Health & Fitness, Lifestyle, that the
\* (label, name) pair matches, and Other when no group matches; so a label
\* matching both a Housing and a Food keyword yields Housing.
C6_FirstMatchingGroup ==
    unit.fn = "mapPlaidCategoryToCore" =>
        LET matching == {i \in 1..5 : GroupMatches(i, unit.primaryCategory, unit.name)}
        IN  /\ unit.result \in CoreCategories
            /\ Cardinality(CoreCategories) = 6
            /\ matching = {} => unit.result = "Other"
            /\ matching # {} =>
                 unit.result =
                   RuleGroups[CHOOSE i \in matching : \A j \in matching : i <= j].category

\* C6 witness: a label that matches both the Housing and the Food group has
\* been classified, as Housing
C6_Witness ==
    /\ unit.fn = "mapPlaidCategoryToCore"
    /\ GroupMatches(1, unit.primaryCategory, unit.name)
    /\ GroupMatches(2, unit.primaryCategory, unit.name)
    /\ unit.result = "Housing"

\* C4: every call of computeGoalForecast returns; with the inputs coerced to
\* numbers and remaining = target - current, it returns monthsToGoal = 0 and a
\* null projectedCompletionDate when remaining <= 0 or contribution <= 0, and
\* otherwise monthsToGoal = ceiling(remaining / contribution) >= 1 and a
\* projectedCompletionDate that is present.
C4_ForecastContract ==
    unit.fn = "computeGoalForecast" =>
        LET target    == NumberOrZero(Get(unit.goal, "targetAmount"))
            current   == NumberOrZero(Get(unit.goal, "currentAmount"))
            contrib   == NumberOrZero(Get(unit.goal, "monthlyContribution"))
            remaining == target - current
        IN  /\ ~unit.result.threw
            /\ LET months == unit.result.value.monthsToGoal.num
                   date   == unit.result.value.projectedCompletionDate
               IN  IF remaining <= 0 \/ contrib <= 0
                   THEN months = 0 /\ date = Null
                   ELSE /\ months >= 1
                        /\ (months - 1) * contrib < remaining
                        /\ remaining <= months * contrib
                        /\ date.t = "string"

-----------------------------------------------------------------------------
(* Claims about the snapshot and the listing, under SpecData               *)

\* The sum of |amount| over the transactions of txs at the places in I, up to n
RECURSIVE SumAt(_, _, _)
SumAt(txs, I, n) ==
    IF n = 0 THEN 0
    ELSE (IF n \in I THEN Abs(NumberOrZero(Get(txs[n], "amount"))) ELSE 0)
           + SumAt(txs, I, n - 1)

TxIsIncome(tx) == IsIncome(PrimaryOf(tx), NameOf(tx, ""))
TxCategory(tx) == mapPlaidCategoryToCore(PrimaryOf(tx), NameOf(tx, ""))

\* A plan response that carries a snapshot aggregated from plan.raw
HasSnapshot ==
    /\ plan.pc = "responded"
    /\ "raw" \in DOMAIN plan
    /\ plan.resp.status = 200

\* C1: for every transaction list the aggregator processes, the snapshot's
\* totalSpendingEstimate equals the sum of its six categoryTotals; each
\* transaction classified as income adds its magnitude to totalIncomeEstimate
\* and to no categoryTotals entry, and each other transaction to exactly the
\* entry of its category.
C1_TotalsAddUp ==
    HasSnapshot =>
        LET snap == plan.resp.plaidSnapshot
            ct   == snap.categoryTotals
        IN  /\ DOMAIN ct = CoreCategories
            /\ snap.totalSpendingEstimate =
                 ct["Housing"] + ct["Food & Dining"] + ct["Transportation"]
                   + ct["Lifestyle"] + ct["Health & Fitness"] + ct["Other"]
            /\ snap.totalIncomeEstimate =
                 SumAt(plan.raw, {i \in 1..Len(plan.raw) : TxIsIncome(plan.raw[i])},
                       Len(plan.raw))
            /\ \A c \in CoreCategories :
                 ct[c] = SumAt(plan.raw,
                               {i \in 1..Len(plan.raw) :
                                  ~TxIsIncome(plan.raw[i]) /\ TxCategory(plan.raw[i]) = c},
                               Len(plan.raw))

\* C1 witness: a snapshot over a list that holds income (one of it with a label
\* the classifier would file under a category) and spending, both non-zero
C1_Witness ==
    /\ HasSnapshot
    /\ plan.resp.plaidSnapshot.totalIncomeEstimate > 0
    /\ plan.resp.plaidSnapshot.totalSpendingEstimate > 0
    /\ \E i \in 1..Len(plan.raw) :
         /\ TxIsIncome(plan.raw[i])
         /\ NumberOrZero(Get(plan.raw[i], "amount")) # 0

\* C9: for every list of n raw transactions, the snapshot's sample is the first
\* min(n, 10) of them in input order, income and spending alike, each with its
\* raw signed amount; an empty list gives an empty sample and all-zero totals.
C9_SampleIsFirstTen ==
    HasSnapshot =>
        LET snap   == plan.resp.plaidSnapshot
            sample == snap.sampleTransactions
            n      == Len(plan.raw)
        IN  /\ Len(sample) = (IF n < 10 THEN n ELSE 10)
            /\ \A i \in 1..Len(sample) :
                 /\ sample[i].amount = Num(NumberOrZero(Get(plan.raw[i], "amount")))
                 /\ sample[i].name = NameOf(plan.raw[i], "")
                 /\ sample[i].date = Get(plan.raw[i], "date")
                 /\ sample[i].primaryCategory = PrimaryOf(plan.raw[i])
            /\ n = 0 =>
                 /\ sample = <<>>
                 /\ snap.totalIncomeEstimate = 0
                 /\ snap.totalSpendingEstimate = 0
                 /\ \A c \in CoreCategories : snap.categoryTotals[c] = 0

\* C9 witness: more than ten transactions were aggregated, and the sample holds
\* an income transaction with its negative raw amount
C9_Witness ==
    /\ HasSnapshot
    /\ Len(plan.raw) > 10
    /\ Len(plan.resp.plaidSnapshot.sampleTransactions) = 10
    /\ \E i \in 1..10 :
         /\ TxIsIncome(plan.raw[i])
         /\ plan.resp.plaidSnapshot.sampleTransactions[i].amount.num < 0

\* A listing answered from Plaid's transactions list.raw
LiveListing ==
    /\ list.pc = "responded"
    /\ list.live
    /\ list.resp.status = 200

\* C7 as stated: every normalized transaction has kind income if and only if
\* its amount is >= 0.
C7_IncomeIffNonNegative ==
    LiveListing =>
        \A i \in 1..Len(list.resp.transactions) :
            LET t == list.resp.transactions[i]
            IN  (t.type = "income") <=> (t.amount >= 0)

\* C7 as amended: whatever the sign of the upstream amount, an income
\* transaction carries |raw amount| and a spending transaction -|raw amount|;
\* so kind = income if and only if amount >= 0 for every transaction whose raw
\* amount is not zero, and a spending transaction of raw amount zero (or with
\* no amount) carries the amount 0.
C7_SignFollowsKind ==
    LiveListing =>
        /\ Len(list.resp.transactions) = Len(list.raw)
        /\ \A i \in 1..Len(list.raw) :
             LET t   == list.resp.transactions[i]
                 raw == NumberOrZero(Get(list.raw[i], "amount"))
             IN  /\ t.type \in {"income", "spending"}
                 /\ t.type = "income" => t.amount = Abs(raw)
                 /\ t.type = "spending" => t.amount = 0 - Abs(raw)
                 /\ raw # 0 => ((t.type = "income") <=> (t.amount >= 0))

\* C7 witness: an income transaction that arrived with a negative amount, and a
\* spending transaction that arrived with a positive one, have been normalized
C7_Witness ==
    /\ LiveListing
    /\ \E i \in 1..Len(list.raw) :
         /\ list.resp.transactions[i].type = "income"
         /\ NumberOrZero(Get(list.raw[i], "amount")) < 0
         /\ list.resp.transactions[i].amount > 0
    /\ \E i \in 1..Len(list.raw) :
         /\ list.resp.transactions[i].type = "spending"
         /\ NumberOrZero(Get(list.raw[i], "amount")) > 0
         /\ list.resp.transactions[i].amount < 0

-----------------------------------------------------------------------------
(* Claims about the plan response, under SpecPlan                          *)

\* The goals of the request, as the handler reads them
InputGoals == ArrayOrEmpty(Get(Props(plan.state), "goals"))

\* Whether a goal carries an explicit numeric monthlyContribution
HasExplicit(goal) == Get(Props(goal), "monthlyContribution").t = "number"

PlanAnswered == plan.pc = "responded" /\ plan.resp.status = 200

\* c = Math.round(surplus * 0.2 / k), said without the model's arithmetic:
\* c <= surplus / (5 k) + 1/2 < c + 1
IsRoundedShare(c, surplus, k) ==
    /\ 10 * k * c <= 2 * surplus + 5 * k
    /\ 2 * surplus + 5 * k < 10 * k * (c + 1)

\* C2 as stated: with no narration service and surplus > 0, every goal
\* without an explicit numeric monthlyContribution is assigned
\* max(round(surplus * 0.2 / k), 0), k being the number of goals that lack
\* one, and every goal with one keeps it.
C2_ShareOverGoalsNeedingDefault ==
    (PlanAnswered /\ ~openaiKey /\ plan.resp.surplus > 0) =>
        LET k == Cardinality({i \in 1..Len(InputGoals) : ~HasExplicit(InputGoals[i])})
        IN  \A i \in 1..Len(InputGoals) :
                LET given == Get(Props(InputGoals[i]), "monthlyContribution")
                    got   == Get(Props(plan.resp.goals[i]), "monthlyContribution")
                IN  IF HasExplicit(InputGoals[i]) THEN got = given
                    ELSE /\ got.t = "number"
                         /\ got.num >= 0
                         /\ IsRoundedShare(got.num, plan.resp.surplus, k)

\* C2 as amended: the divisor is the number of all goals of the request,
\* those with an explicit contribution included.
C2_ShareOverAllGoals ==
    (PlanAnswered /\ ~openaiKey /\ plan.resp.surplus > 0) =>
        /\ Len(plan.resp.goals) = Len(InputGoals)
        /\ \A i \in 1..Len(InputGoals) :
                LET given == Get(Props(InputGoals[i]), "monthlyContribution")
                    got   == Get(Props(plan.resp.goals[i]), "monthlyContribution")
                IN  IF HasExplicit(InputGoals[i]) THEN got = given
                    ELSE /\ got.t = "number"
                         /\ got.num >= 0
                         /\ IsRoundedShare(got.num, plan.resp.surplus, Len(InputGoals))

\* C2 witness: a rule-of-thumb plan with surplus > 0 for two goals, one with an
\* explicit contribution and one given a non-zero default
C2_Witness ==
    /\ PlanAnswered
    /\ ~openaiKey
    /\ plan.resp.surplus > 0
    /\ Len(InputGoals) = 2
    /\ \E i \in 1..2 : HasExplicit(InputGoals[i])
    /\ \E i \in 1..2 :
         /\ ~HasExplicit(InputGoals[i])
         /\ Get(Props(plan.resp.goals[i]), "monthlyContribution").num > 0

\* C3: every successful plan response, with or without the narration service,
\* returns one goal per input goal in input order, each with
\* monthlyContribution, monthsToGoal and projectedCompletionDate attached and
\* its targetAmount and currentAmount unchanged.
C3_GoalsEnriched ==
    PlanAnswered =>
        /\ Len(plan.resp.goals) = Len(InputGoals)
        /\ \A i \in 1..Len(InputGoals) :
             LET in  == Props(InputGoals[i])
                 out == Props(plan.resp.goals[i])
             IN  /\ {"monthlyContribution", "monthsToGoal", "projectedCompletionDate"}
                       \subseteq DOMAIN out
                 /\ Get(out, "targetAmount") = Get(in, "targetAmount")
                 /\ Get(out, "currentAmount") = Get(in, "currentAmount")

\* A budget state that is a structured object
Structured(state) == state.t \in {"object", "array"}

\* C5: a plan request is answered InvalidInput exactly when its budget state
\* is absent or not a structured object, and every request whose budget state
\* is a structured object is answered with a plan, whatever is missing or
\* malformed inside it.
C5_OnlyTopLevelValidation ==
    plan.pc = "responded" =>
        /\ (plan.resp.status = 400) <=> ~Structured(plan.state)
        /\ Structured(plan.state) => plan.resp.status = 200

-----------------------------------------------------------------------------
(* Claims about the server, under Spec                                     *)

ListAnswered == list.pc = "responded" /\ list.resp.status = 200

\* C8 as stated: before or after a token has been stored, every transaction
\* the listing endpoint returns is tagged income or spending.
C8_TagsIncomeOrSpending ==
    ListAnswered =>
        \A i \in 1..Len(list.resp.transactions) :
            list.resp.transactions[i].type \in {"income", "spending"}

\* C8 as amended: every transaction of a listing answered with a token stored
\* is tagged income or spending; a listing answered with no token stored is
\* the fixed demo list, whose tags are income, bill and spending.
C8_LiveTagsIncomeOrSpending ==
    ListAnswered =>
        IF list.live
        THEN \A i \in 1..Len(list.resp.transactions) :
                 list.resp.transactions[i].type \in {"income", "spending"}
        ELSE [i \in 1..Len(list.resp.transactions) |-> list.resp.transactions[i].type]
                 = <<"income", "bill", "spending">>

\* C8 witness: a listing answered from Plaid's transactions that holds a
\* housing payment and an income transaction
C8_Witness ==
    /\ ListAnswered
    /\ list.live
    /\ \E i \in 1..Len(list.raw) : TxCategory(list.raw[i]) = "Housing"
    /\ \E i \in 1..Len(list.raw) : list.resp.transactions[i].type = "income"

\* C10: in every interleaving of the three handlers, lastAccessToken changes
\* only when a public-token exchange succeeds, to the token the exchange
\* returned, and once set is never null again; and a plan response produced
\* while no exchange has succeeded comes straight from the request, without a
\* call of transactionsGet, and carries a null plaidSnapshot.
C10_TokenAndSnapshot ==
    [][ /\ lastAccessToken' # lastAccessToken =>
              /\ conn.pc = "awaitExchange"
              /\ conn'.pc = "awaitAccounts"
              /\ exchanges' = exchanges + 1
              /\ lastAccessToken' = conn'.access_token
        /\ lastAccessToken # NULL => lastAccessToken' # NULL
        /\ exchanges = 0 => lastAccessToken = NULL
        /\ (plan.pc # "responded" /\ plan'.pc = "responded" /\ exchanges' = 0) =>
              /\ plan.pc = "idle"
              /\ plan'.resp.status = 200 => plan'.resp.plaidSnapshot = Null
      ]_vars

\* C10 witness: a plan has been answered with a null snapshot while a connect
\* is waiting for its exchange and none has succeeded yet
C10_Witness ==
    /\ exchanges = 0
    /\ conn.pc = "awaitExchange"
    /\ PlanAnswered
    /\ plan.resp.plaidSnapshot = Null

=============================================================================
